---- MODULE Spec2Model ----
(***************************************************************************)
(* The survey/voting HTTP API of mr-195/survey_backend.  The repository    *)
(* holds two FastAPI applications over the same document store:            *)
(*   src/main.py       one lazily built client kept in Database.client     *)
(*   src/api/index.py  one client per get_db() call (lifespan + handlers)  *)
(* A behaviour serves one of them (variable app).  Every handler is an     *)
(* asyncio coroutine with one await, the store round trip: the code up to  *)
(* the await is one atomic step (the action named after the handler), the  *)
(* store operation with the code after the await is a second one (its      *)
(* resume action), so requests interleave at their awaits exactly as on    *)
(* the event loop.  The last HTTP response sent is kept in reply.          *)
(***************************************************************************)
EXTENDS Integers, Sequences, FiniteSets, TLC

\* ------------------------------------------------------------- bounds ----
MaxRequests == 2      \* requests served in one process lifetime
MaxClock == 1         \* ticks of the server clock
ExtraQuestions == 1   \* documents in questions beyond the to_list length

\* -------------------------------------------------- program constants ----
ToListLength == 100   \* cursor.to_list(length=100)
ObjectIdStrLen == 24  \* hex digits of str(ObjectId)

None == "None"
Unbounded == -1       \* to_list(length=None)

VARIABLES
    app,              \* "main" | "index": the application module that is served
    MONGODB_URL,      \* os.getenv("MONGODB_URL"): None when the variable is absent
    proc,             \* "loaded" | "running" | "stopped": process lifecycle
    Database_client,  \* main.py Database.client: 0 (None) or an index of clients
    lifespan_client,  \* index.py lifespan's local client: 0 or an index of clients
    clients,          \* every AsyncIOMotorClient constructed so far, in order
    reachable,        \* the store endpoint answers
    questions,        \* store collection voting_app.questions, natural order
    responses,        \* store collection voting_app.responses, natural order
    inc,              \* the ObjectId generator's counter
    clock,            \* the server clock read by datetime.utcnow()
    tasks,            \* the request tasks suspended at their await
    served,           \* number of requests received so far
    reply,            \* the last HTTP response sent, with its request
    issued            \* the response ids returned to clients, in order

vars == <<app, MONGODB_URL, proc, Database_client, lifespan_client, clients,
          reachable, questions, responses, inc, clock, tasks, served, reply,
          issued>>

\* ------------------------------------------------ ObjectId <-> string ----
HexChars == <<"0", "1", "2", "3", "4", "5", "6", "7",
              "8", "9", "a", "b", "c", "d", "e", "f">>

\* value of one character for bytes.fromhex, -1 when it is not a hex digit
HexVal(c) ==
    CASE c = "0" -> 0 [] c = "1" -> 1 [] c = "2" -> 2 [] c = "3" -> 3
      [] c = "4" -> 4 [] c = "5" -> 5 [] c = "6" -> 6 [] c = "7" -> 7
      [] c = "8" -> 8 [] c = "9" -> 9
      [] c \in {"a", "A"} -> 10 [] c \in {"b", "B"} -> 11
      [] c \in {"c", "C"} -> 12 [] c \in {"d", "D"} -> 13
      [] c \in {"e", "E"} -> 14 [] c \in {"f", "F"} -> 15
      [] OTHER -> -1

RECURSIVE HexDigit(_, _)
\* the hex digit of weight 16^k in n
HexDigit(n, k) == IF k = 0 THEN n % 16 ELSE HexDigit(n \div 16, k - 1)

\* str(ObjectId): 24 lower-case hex digits, most significant first
ObjectIdStr(n) ==
    [i \in 1..ObjectIdStrLen |-> HexChars[HexDigit(n, ObjectIdStrLen - i) + 1]]

\* bson.ObjectId.is_valid for a str: 24 characters, all hex digits
ObjectIdValid(s) ==
    /\ Len(s) = ObjectIdStrLen
    /\ \A i \in 1..Len(s) : HexVal(s[i]) >= 0

RECURSIVE HexParse(_, _)
HexParse(s, i) == IF i = 0 THEN 0 ELSE HexParse(s, i - 1) * 16 + HexVal(s[i])

\* ObjectId(question_id) of a valid string (an invalid one raises InvalidId)
ObjectId(s) == HexParse(s, Len(s))


\* ------------------------------------------------------ the driver ------
\* AsyncIOMotorClient(url): construction never connects; a host of None
\* falls back to the driver's default host, so it does not raise either.
AsyncIOMotorClient(url, maker) ==
    [url |-> url,
     host |-> IF url = None THEN "localhost" ELSE url,
     open |-> TRUE,
     made_by |-> maker,
     closed_by |-> ""]

\* client.close()
Close(cs, c, who) == [cs EXCEPT ![c].open = FALSE, ![c].closed_by = who]

\* cursor.to_list(length): the first length documents, all of them for None
ToList(cursor, length) ==
    IF length = Unbounded \/ Len(cursor) <= length
    THEN cursor
    ELSE SubSeq(cursor, 1, length)

\* collection.find(): every document, in natural order
Find(coll) == coll

FilterQuestionId(coll, qid) == SelectSeq(coll, LAMBDA d : d.question_id = qid)

\* collection.find_one({"_id": oid}): <<the document>>, or <<>> for None
FindOne(coll, oid) ==
    LET hits == SelectSeq(coll, LAMBDA d : d._id = oid)
    IN  IF hits = <<>> THEN <<>> ELSE <<Head(hits)>>

\* the _id index is unique: a second document with the same _id is refused
DuplicateKey(coll, oid) == \E i \in 1..Len(coll) : coll[i]._id = oid

InsertOneTwice(coll, doc) == Append(Append(coll, doc), doc)

InsertOneLost(coll, doc) ==
    IF coll = <<>> THEN <<doc>> ELSE [coll EXCEPT ![Len(coll)] = doc]

\* collection.insert_one(doc): one atomic single-document write
InsertOne(coll, doc) == Append(coll, doc)

\* {**document, "_id": str(document["_id"])}
StrId(d) == [d EXCEPT !._id = ObjectIdStr(d._id)]

StrIds(docs) == [i \in 1..Len(docs) |-> StrId(docs[i])]

\* ------------------------------------------------------ the schemas -----
\* pydantic model Response: three fields, none of them with a default
ResponseFields == {"question_id", "response_text", "submitted_at"}

ResponseValid(body) == ResponseFields \subseteq body.fields

response_dict_client(body, now) ==
    [question_id |-> body.question_id,
     response_text |-> body.response_text,
     submitted_at |-> body.submitted_at]

\* response.dict() followed by response_dict["submitted_at"] = utcnow()
response_dict(body, now) ==
    [question_id |-> body.question_id,
     response_text |-> body.response_text,
     submitted_at |-> now]

\* ------------------------------------------------------ the inputs ------
ExistingId == ObjectIdStr(1)
AbsentId == ObjectIdStr(0)
MalformedId == <<"n", "o", "p", "e">>

QuestionIdArgs == {ExistingId, AbsentId, MalformedId}

ClientTimes == {1, 9}

NoBody == [fields |-> {}, question_id |-> <<>>, response_text |-> "",
           submitted_at |-> 0]

\* JSON bodies of POST /api/responses: with and without submitted_at
Bodies ==
    {[fields |-> ResponseFields, question_id |-> ExistingId,
      response_text |-> "yes", submitted_at |-> ts] : ts \in ClientTimes}
    \cup
    {[fields |-> {"question_id", "response_text"}, question_id |-> ExistingId,
      response_text |-> "yes", submitted_at |-> 0]}

QuestionDoc(n) == [_id |-> n, question_text |-> "Q"]

NoDoc == [question_id |-> <<>>, response_text |-> "", submitted_at |-> 0]

IdleTask ==
    [pc |-> "idle", handler |-> "", question_id |-> <<>>, body |-> NoBody,
     client |-> 0, called_at |-> 0, doc |-> NoDoc]

NoReply ==
    [handler |-> "", question_id |-> <<>>, body |-> NoBody, client |-> 0,
     called_at |-> 0, raised |-> "", status |-> 0, result |-> <<>>,
     response_id |-> <<>>]

Slots == 1..MaxRequests

\* the next request of the process takes the lowest free task slot
Arrives(t) ==
    /\ proc = "running"
    /\ served < MaxRequests
    /\ tasks[t].pc = "idle"
    /\ \A u \in 1..(t - 1) : tasks[u].pc # "idle"

Awaiting(t, h) == tasks[t].pc = "await" /\ tasks[t].handler = h

\* the exception the awaited store operation raises, "" when it succeeds
StoreError == IF reachable THEN "" ELSE "ServerSelectionTimeoutError"

ConnectionString == "mongodb+srv://cluster"

\* the state after the module is imported, for a given environment and store
InitWith(urls, counts) ==
    /\ app \in {"main", "index"}
    /\ MONGODB_URL \in urls
    /\ proc = "loaded"
    /\ Database_client = 0
    /\ lifespan_client = 0
    /\ clients = <<>>
    /\ reachable = TRUE
    /\ \E n \in counts : questions = [i \in 1..n |-> QuestionDoc(i)]
    /\ responses = <<>>
    /\ inc = 1
    /\ clock = 1
    /\ tasks = [t \in Slots |-> IdleTask]
    /\ served = 0
    /\ reply = NoReply
    /\ issued = <<>>

\* the configured deployment over a small store
Init == InitWith({ConnectionString}, {1})

\* the same, also over a store that holds more questions than to_list reads
InitStore == InitWith({ConnectionString}, {1, ToListLength + ExtraQuestions})

\* the same, also with the MONGODB_URL variable absent from the environment
InitEnv == InitWith({None, ConnectionString}, {1})

\* ------------------------------------------------------ lifecycle -------
\* index.py: lifespan up to its yield; main.py registers no startup hook
Startup ==
    /\ proc = "loaded"
    /\ proc' = "running"
    /\ IF app = "index"
       THEN /\ clients' = Append(clients, AsyncIOMotorClient(MONGODB_URL, "lifespan"))
            /\ lifespan_client' = Len(clients) + 1
       ELSE UNCHANGED <<clients, lifespan_client>>
    /\ UNCHANGED <<app, MONGODB_URL, Database_client, reachable, questions,
                   responses, inc, clock, tasks, served, reply, issued>>

\* index.py: lifespan after its yield; main.py: shutdown_db_client
Shutdown ==
    /\ proc = "running"
    /\ \A t \in Slots : tasks[t].pc = "idle"
    /\ proc' = "stopped"
    /\ IF app = "index"
       THEN clients' = Close(clients, lifespan_client, "shutdown")
       ELSE IF Database_client # 0
            THEN clients' = Close(clients, Database_client, "shutdown")
            ELSE UNCHANGED clients
    /\ UNCHANGED <<app, MONGODB_URL, Database_client, lifespan_client,
                   reachable, questions, responses, inc, clock, tasks, served, reply, issued>>

\* ------------------------------------------------------ environment -----
Tick ==
    /\ proc = "running"
    /\ clock <= MaxClock
    /\ clock' = clock + 1
    /\ UNCHANGED <<app, MONGODB_URL, proc, Database_client, lifespan_client,
                   clients, reachable, questions, responses, inc, tasks, served,
                   reply, issued>>

\* the store endpoint goes away or comes back
ToggleStore ==
    /\ proc = "running"
    /\ reachable' = ~reachable
    /\ UNCHANGED <<app, MONGODB_URL, proc, Database_client, lifespan_client,
                   clients, questions, responses, inc, clock, tasks, served, reply, issued>>



\* ------------------------------------------------------ handlers --------
\* except Exception as e: raise HTTPException(status_code=code).  Every
\* exception raised inside the try block is caught, an HTTPException raised
\* by the handler itself included (it is a subclass of Exception).
ExceptException(raised, code, ok) == IF raised # "" THEN code ELSE ok

\* the task of a request that has reached its await
Started(h, c) ==
    [IdleTask EXCEPT !.pc = "await", !.handler = h, !.client = c,
                     !.called_at = clock]

\* the HTTP response of a task
Sent(task, raised, status, result, response_id) ==
    [handler |-> task.handler, question_id |-> task.question_id,
     body |-> task.body, client |-> task.client, called_at |-> task.called_at,
     raised |-> raised, status |-> status, result |-> result,
     response_id |-> response_id]

WithId(doc, oid) ==
    [_id |-> oid, question_id |-> doc.question_id,
     response_text |-> doc.response_text, submitted_at |-> doc.submitted_at]

Healthy == <<[status |-> "healthy", database |-> "connected"]>>

\* what a handler's first half leaves alone
CallFrame ==
    /\ served' = served + 1
    /\ UNCHANGED <<app, MONGODB_URL, proc, lifespan_client, reachable,
                   questions, responses, inc, clock, issued>>

\* what a handler's second half leaves alone when it only reads the store
ReadFrame ==
    UNCHANGED <<app, MONGODB_URL, proc, Database_client, lifespan_client,
                reachable, questions, responses, inc, clock, served, issued>>

\* main.py Database.get_client: build the client on first use, then reuse it
Database_get_client ==
    IF Database_client = 0
    THEN /\ clients' = Append(clients, AsyncIOMotorClient(MONGODB_URL, "Database"))
         /\ Database_client' = Len(clients) + 1
    ELSE UNCHANGED <<clients, Database_client>>

\* index.py get_db: a new client on every call
get_db ==
    /\ clients' = Append(clients, AsyncIOMotorClient(MONGODB_URL, "handler"))
    /\ UNCHANGED Database_client

\* index.py: client.close() sits inside the try block after the await, so
\* it runs only when nothing raised before it
CloseUnlessRaised(t, raised) ==
    clients' = IF raised = ""
               THEN Close(clients, tasks[t].client, "handler")
               ELSE clients

\* ---- src/main.py ----
main_health_check(t) ==
    /\ app = "main" /\ Arrives(t)
    /\ Database_get_client
    /\ tasks' = [tasks EXCEPT ![t] = Started("health_check", Database_client')]
    /\ UNCHANGED reply
    /\ CallFrame

main_health_check_resume(t) ==
    /\ app = "main" /\ Awaiting(t, "health_check")
    /\ UNCHANGED clients
    /\ reply' = Sent(tasks[t], StoreError,
                     ExceptException(StoreError, 503, 200),
                     IF StoreError = "" THEN Healthy ELSE <<>>, <<>>)
    /\ tasks' = [tasks EXCEPT ![t] = IdleTask]
    /\ ReadFrame

main_get_questions(t) ==
    /\ app = "main" /\ Arrives(t)
    /\ Database_get_client
    /\ tasks' = [tasks EXCEPT ![t] = Started("get_questions", Database_client')]
    /\ UNCHANGED reply
    /\ CallFrame

main_get_questions_resume(t) ==
    /\ app = "main" /\ Awaiting(t, "get_questions")
    /\ UNCHANGED clients
    /\ reply' = Sent(tasks[t], StoreError,
                     ExceptException(StoreError, 500, 200),
                     IF StoreError = ""
                     THEN StrIds(ToList(Find(questions), ToListLength))
                     ELSE <<>>, <<>>)
    /\ tasks' = [tasks EXCEPT ![t] = IdleTask]
    /\ ReadFrame

\* ObjectId(question_id) is evaluated before the await: a malformed id
\* raises InvalidId inside the try block and the request ends at once
main_get_question(t) ==
    /\ app = "main" /\ Arrives(t)
    /\ Database_get_client
    /\ \E question_id \in QuestionIdArgs :
           LET task == [Started("get_question", Database_client')
                            EXCEPT !.question_id = question_id]
           IN  IF ObjectIdValid(question_id)
               THEN /\ tasks' = [tasks EXCEPT ![t] = task]
                    /\ UNCHANGED reply
               ELSE /\ reply' = Sent(task, "InvalidId",
                                     ExceptException("InvalidId", 500, 200),
                                     <<>>, <<>>)
                    /\ UNCHANGED tasks
    /\ CallFrame

main_get_question_resume(t) ==
    /\ app = "main" /\ Awaiting(t, "get_question")
    /\ UNCHANGED clients
    /\ LET question == FindOne(questions, ObjectId(tasks[t].question_id))
           raised == IF StoreError # "" THEN StoreError
                     ELSE IF question = <<>> THEN "HTTPException(404)"
                     ELSE ""
       IN  reply' = Sent(tasks[t], raised, ExceptException(raised, 500, 200),
                         IF raised = "" THEN StrIds(question) ELSE <<>>, <<>>)
    /\ tasks' = [tasks EXCEPT ![t] = IdleTask]
    /\ ReadFrame

\* the body is validated against Response before the handler is entered
main_submit_response(t) ==
    /\ app = "main" /\ Arrives(t)
    /\ \E body \in Bodies :
           IF ResponseValid(body)
           THEN /\ Database_get_client
                /\ tasks' = [tasks EXCEPT ![t] =
                       [Started("submit_response", Database_client')
                            EXCEPT !.body = body,
                                   !.doc = response_dict(body, clock)]]
                /\ UNCHANGED reply
           ELSE /\ reply' = Sent([Started("submit_response", 0)
                                      EXCEPT !.body = body],
                                 "RequestValidationError", 422, <<>>, <<>>)
                /\ UNCHANGED <<clients, Database_client, tasks>>
    /\ CallFrame

\* insert_one gives the document a fresh ObjectId, then writes it
main_submit_response_resume(t) ==
    /\ app = "main" /\ Awaiting(t, "submit_response")
    /\ LET raised == IF StoreError # "" THEN StoreError
                     ELSE IF DuplicateKey(responses, inc) THEN "DuplicateKeyError"
                     ELSE ""
       IN  /\ UNCHANGED clients
           /\ reply' = Sent(tasks[t], raised, ExceptException(raised, 500, 200),
                            <<>>, IF raised = "" THEN ObjectIdStr(inc) ELSE <<>>)
           /\ responses' = IF raised = ""
                           THEN InsertOne(responses, WithId(tasks[t].doc, inc))
                           ELSE responses
           /\ issued' = IF raised = ""
                        THEN Append(issued, ObjectIdStr(inc))
                        ELSE issued
    /\ inc' = inc + 1
    /\ tasks' = [tasks EXCEPT ![t] = IdleTask]
    /\ UNCHANGED <<app, MONGODB_URL, proc, Database_client, lifespan_client,
                   reachable, questions, clock, served>>

main_get_responses(t) ==
    /\ app = "main" /\ Arrives(t)
    /\ Database_get_client
    /\ \E question_id \in {ExistingId} :
           tasks' = [tasks EXCEPT ![t] =
               [Started("get_responses", Database_client')
                    EXCEPT !.question_id = question_id]]
    /\ UNCHANGED reply
    /\ CallFrame

main_get_responses_resume(t) ==
    /\ app = "main" /\ Awaiting(t, "get_responses")
    /\ UNCHANGED clients
    /\ reply' = Sent(tasks[t], StoreError,
                     ExceptException(StoreError, 500, 200),
                     IF StoreError = ""
                     THEN StrIds(ToList(FilterQuestionId(responses,
                                     tasks[t].question_id), ToListLength))
                     ELSE <<>>, <<>>)
    /\ tasks' = [tasks EXCEPT ![t] = IdleTask]
    /\ ReadFrame

\* ---- src/api/index.py ----
index_health_check(t) ==
    /\ app = "index" /\ Arrives(t)
    /\ get_db
    /\ tasks' = [tasks EXCEPT ![t] = Started("health_check", Len(clients) + 1)]
    /\ UNCHANGED reply
    /\ CallFrame

index_health_check_resume(t) ==
    /\ app = "index" /\ Awaiting(t, "health_check")
    /\ CloseUnlessRaised(t, StoreError)
    /\ reply' = Sent(tasks[t], StoreError,
                     ExceptException(StoreError, 500, 200),
                     IF StoreError = "" THEN Healthy ELSE <<>>, <<>>)
    /\ tasks' = [tasks EXCEPT ![t] = IdleTask]
    /\ ReadFrame

index_get_questions(t) ==
    /\ app = "index" /\ Arrives(t)
    /\ get_db
    /\ tasks' = [tasks EXCEPT ![t] = Started("get_questions", Len(clients) + 1)]
    /\ UNCHANGED reply
    /\ CallFrame

index_get_questions_resume(t) ==
    /\ app = "index" /\ Awaiting(t, "get_questions")
    /\ CloseUnlessRaised(t, StoreError)
    /\ reply' = Sent(tasks[t], StoreError,
                     ExceptException(StoreError, 500, 200),
                     IF StoreError = ""
                     THEN StrIds(ToList(Find(questions), Unbounded))
                     ELSE <<>>, <<>>)
    /\ tasks' = [tasks EXCEPT ![t] = IdleTask]
    /\ ReadFrame

\* ObjectId(question_id) is evaluated before the await: a malformed id
\* raises InvalidId inside the try block and the request ends at once
index_get_question(t) ==
    /\ app = "index" /\ Arrives(t)
    /\ get_db
    /\ \E question_id \in QuestionIdArgs :
           LET task == [Started("get_question", Len(clients) + 1)
                            EXCEPT !.question_id = question_id]
           IN  IF ObjectIdValid(question_id)
               THEN /\ tasks' = [tasks EXCEPT ![t] = task]
                    /\ UNCHANGED reply
               ELSE /\ reply' = Sent(task, "InvalidId",
                                     ExceptException("InvalidId", 500, 200),
                                     <<>>, <<>>)
                    /\ UNCHANGED tasks
    /\ CallFrame

index_get_question_resume(t) ==
    /\ app = "index" /\ Awaiting(t, "get_question")
    /\ CloseUnlessRaised(t, StoreError)
    /\ LET question == FindOne(questions, ObjectId(tasks[t].question_id))
           raised == IF StoreError # "" THEN StoreError
                     ELSE IF question = <<>> THEN "HTTPException(404)"
                     ELSE ""
       IN  reply' = Sent(tasks[t], raised, ExceptException(raised, 500, 200),
                         IF raised = "" THEN StrIds(question) ELSE <<>>, <<>>)
    /\ tasks' = [tasks EXCEPT ![t] = IdleTask]
    /\ ReadFrame

\* the body is validated against Response before the handler is entered
index_submit_response(t) ==
    /\ app = "index" /\ Arrives(t)
    /\ \E body \in Bodies :
           IF ResponseValid(body)
           THEN /\ get_db
                /\ tasks' = [tasks EXCEPT ![t] =
                       [Started("submit_response", Len(clients) + 1)
                            EXCEPT !.body = body,
                                   !.doc = response_dict(body, clock)]]
                /\ UNCHANGED reply
           ELSE /\ reply' = Sent([Started("submit_response", 0)
                                      EXCEPT !.body = body],
                                 "RequestValidationError", 422, <<>>, <<>>)
                /\ UNCHANGED <<clients, Database_client, tasks>>
    /\ CallFrame

\* insert_one gives the document a fresh ObjectId, then writes it
index_submit_response_resume(t) ==
    /\ app = "index" /\ Awaiting(t, "submit_response")
    /\ LET raised == IF StoreError # "" THEN StoreError
                     ELSE IF DuplicateKey(responses, inc) THEN "DuplicateKeyError"
                     ELSE ""
       IN  /\ CloseUnlessRaised(t, raised)
           /\ reply' = Sent(tasks[t], raised, ExceptException(raised, 500, 200),
                            <<>>, IF raised = "" THEN ObjectIdStr(inc) ELSE <<>>)
           /\ responses' = IF raised = ""
                           THEN InsertOne(responses, WithId(tasks[t].doc, inc))
                           ELSE responses
           /\ issued' = IF raised = ""
                        THEN Append(issued, ObjectIdStr(inc))
                        ELSE issued
    /\ inc' = inc + 1
    /\ tasks' = [tasks EXCEPT ![t] = IdleTask]
    /\ UNCHANGED <<app, MONGODB_URL, proc, Database_client, lifespan_client,
                   reachable, questions, clock, served>>

index_get_responses(t) ==
    /\ app = "index" /\ Arrives(t)
    /\ get_db
    /\ \E question_id \in {ExistingId} :
           tasks' = [tasks EXCEPT ![t] =
               [Started("get_responses", Len(clients) + 1)
                    EXCEPT !.question_id = question_id]]
    /\ UNCHANGED reply
    /\ CallFrame

index_get_responses_resume(t) ==
    /\ app = "index" /\ Awaiting(t, "get_responses")
    /\ CloseUnlessRaised(t, StoreError)
    /\ reply' = Sent(tasks[t], StoreError,
                     ExceptException(StoreError, 500, 200),
                     IF StoreError = ""
                     THEN StrIds(ToList(FilterQuestionId(responses,
                                     tasks[t].question_id), Unbounded))
                     ELSE <<>>, <<>>)
    /\ tasks' = [tasks EXCEPT ![t] = IdleTask]
    /\ ReadFrame

\* ------------------------------------------------------ specification ---
Next ==
    \/ Startup
    \/ Shutdown
    \/ Tick
    \/ ToggleStore
    \/ \E t \in Slots : main_health_check(t)
    \/ \E t \in Slots : main_health_check_resume(t)
    \/ \E t \in Slots : main_get_questions(t)
    \/ \E t \in Slots : main_get_questions_resume(t)
    \/ \E t \in Slots : main_get_question(t)
    \/ \E t \in Slots : main_get_question_resume(t)
    \/ \E t \in Slots : main_submit_response(t)
    \/ \E t \in Slots : main_submit_response_resume(t)
    \/ \E t \in Slots : main_get_responses(t)
    \/ \E t \in Slots : main_get_responses_resume(t)
    \/ \E t \in Slots : index_health_check(t)
    \/ \E t \in Slots : index_health_check_resume(t)
    \/ \E t \in Slots : index_get_questions(t)
    \/ \E t \in Slots : index_get_questions_resume(t)
    \/ \E t \in Slots : index_get_question(t)
    \/ \E t \in Slots : index_get_question_resume(t)
    \/ \E t \in Slots : index_submit_response(t)
    \/ \E t \in Slots : index_submit_response_resume(t)
    \/ \E t \in Slots : index_get_responses(t)
    \/ \E t \in Slots : index_get_responses_resume(t)

Spec == Init /\ [][Next]_vars

SpecStore == InitStore /\ [][Next]_vars

SpecEnv == InitEnv /\ [][Next]_vars


\* ------------------------------------------------------ properties ------
\* the store answered the request's operation
Answered(r) == r.raised # "ServerSelectionTimeoutError"

\* C1: get_question answers a well-formed id that is in no document of
\* questions, the store being reachable, with status 404.
C1_AbsentIdIs404 ==
    (/\ reply.handler = "get_question"
     /\ ObjectIdValid(reply.question_id)
     /\ Answered(reply)
     /\ FindOne(questions, ObjectId(reply.question_id)) = <<>>)
    => reply.status = 404

\* C2: the submitted_at of every document submit_response stores is the
\* server clock read by that request's handler, never the body's value:
\* while the request awaits its insert, in the document it inserted, and
\* so every stored timestamp is a past reading of the server clock.
C2_ServerTimestamp ==
    /\ \A t \in Slots :
           tasks[t].handler = "submit_response"
           => tasks[t].doc.submitted_at = tasks[t].called_at
    /\ (reply.handler = "submit_response" /\ reply.status = 200)
       => \E i \in 1..Len(responses) :
              /\ ObjectIdStr(responses[i]._id) = reply.response_id
              /\ responses[i].submitted_at = reply.called_at
    /\ \A i \in 1..Len(responses) : responses[i].submitted_at \in 1..clock

\* a response was stored whose body carried another timestamp than the
\* one that was stored with it
C2_Witness ==
    /\ reply.handler = "submit_response"
    /\ reply.status = 200
    /\ \E i \in 1..Len(responses) :
           /\ ObjectIdStr(responses[i]._id) = reply.response_id
           /\ responses[i].submitted_at # reply.body.submitted_at

\* C3: a body with question_id and response_text only is accepted: the
\* request inserts a response and returns 200 with a response_id.
C3_BodyWithoutTimestampAccepted ==
    (/\ reply.handler = "submit_response"
     /\ reply.body.fields = {"question_id", "response_text"}
     /\ Answered(reply))
    => (reply.status = 200 /\ reply.response_id # <<>>)

\* C4: the response ids returned by the successful submit_response
\* requests are pairwise distinct, each names a stored document, and the
\* responses collection holds exactly one document per returned id.
C4_DistinctIdsNoLostWrites ==
    /\ \A i, j \in 1..Len(issued) : i # j => issued[i] # issued[j]
    /\ Len(responses) = Len(issued)
    /\ \A i \in 1..Len(issued) :
           \E j \in 1..Len(responses) : ObjectIdStr(responses[j]._id) = issued[i]

\* two submissions succeeded, and the one stamped later was inserted first:
\* the two requests overlapped
C4_Witness ==
    /\ Len(issued) >= 2
    /\ \E i, j \in 1..Len(responses) :
           i < j /\ responses[i].submitted_at > responses[j].submitted_at

\* C5: get_questions never returns more than to_list's length of questions.
C5_AtMostCap ==
    reply.handler = "get_questions" => Len(reply.result) <= ToListLength

\* C6: health_check answers 503 when the ping fails and 200 with the
\* healthy payload when it succeeds, and nothing else.
C6_HealthStatus ==
    reply.handler = "health_check"
    => IF reply.raised = ""
       THEN reply.status = 200 /\ reply.result = Healthy
       ELSE reply.status = 503

\* C7: one client per process lifetime: at most one is ever constructed,
\* none by a request handler, and none is closed but by the shutdown hook.
C7_OnePool ==
    /\ Len(clients) <= 1
    /\ \A c \in 1..Len(clients) :
           /\ clients[c].made_by # "handler"
           /\ clients[c].closed_by \in {"", "shutdown"}

\* C8: with MONGODB_URL absent the process never serves: no request is
\* received and no client is built from the absent connection string.
C8_FailFast ==
    MONGODB_URL = None
    => /\ proc # "running"
       /\ served = 0
       /\ \A c \in 1..Len(clients) : clients[c].url # None

\* C9: no step changes questions; a step changes responses only by
\* appending one document, and it does so exactly when a submit_response
\* request completes with status 200.
C9_StoreFrame ==
    [][/\ questions' = questions
       /\ Len(responses') >= Len(responses)
       /\ SubSeq(responses', 1, Len(responses)) = responses
       /\ (\E t \in Slots :
               /\ Awaiting(t, "submit_response")
               /\ tasks'[t].pc = "idle"
               /\ reply'.status = 200)
          <=> Len(responses') = Len(responses) + 1
       /\ (\E t \in Slots : Awaiting(t, "submit_response") /\ tasks'[t].pc = "idle")
          \/ responses' = responses]_vars

\* a stored response has been read back by get_responses
C9_Witness ==
    /\ reply.handler = "get_responses"
    /\ reply.status = 200
    /\ Len(reply.result) >= 1
    /\ Len(responses) >= 1

\* C10: in index.py the client a handler opened is closed when the
\* handler has returned its response, whatever the outcome.
C10_ClientClosed ==
    (app = "index" /\ reply.handler # "" /\ reply.client # 0)
    => ~clients[reply.client].open

====
